---- MODULE Spec2Model ----
(***************************************************************************)
(* ShieldAML: the transaction risk engine (backend/ml_model.py), the KYC   *)
(* assessor, and the persistence layer with its HTTP routes                *)
(* (backend/database.py, backend/routes/*.py).                             *)
(*                                                                         *)
(* Conventions                                                             *)
(*   - Money is counted in cents, so that fractional amounts such as       *)
(*     9999.99 are representable: the Python float 125000.0 is 12500000.   *)
(*   - A Python value is a one-field record whose field name is its type:  *)
(*     [int |-> 3], [float |-> 12500000], [str |-> "ir"], [bool |-> TRUE], *)
(*     [none |-> TRUE].  [absent |-> TRUE] stands for a key that is not in *)
(*     the dict.  A raised exception is [err |-> "TypeError"].             *)
(*   - The em dash of the LOW action label is written " - " (the module is *)
(*     ASCII).                                                             *)
(*   - The clock is not modelled: timestamp, created_at, resolved_at and   *)
(*     submitted_at are written and never read by the operations here.     *)
(***************************************************************************)
EXTENDS Integers, Sequences, FiniteSets, TLC

VARIABLES pc, call, ret, transactions, alerts, str_reports

vars == <<pc, call, ret, transactions, alerts, str_reports>>

-----------------------------------------------------------------------------
(* Python values *)

Absent == [absent |-> TRUE]

None == [none |-> TRUE]

PyInt(i) == [int |-> i]

PyFloat(c) == [float |-> c]

PyStr(s) == [str |-> s]

PyBool(b) == [bool |-> b]

Raise(e) == [err |-> e]

IsErr(v) == "err" \in DOMAIN v

Is(v, tag) == tag \in DOMAIN v

Min(a, b) == IF a < b THEN a ELSE b

\* dict.get(key, default): the default only when the key is absent; a key
\* that is present with the value None yields None.
DictGet(d, key, default) == IF d[key] = Absent THEN default ELSE d[key]

\* The numeric strings the inputs use, with the float they parse to (cents).
NumericLiteral == [s \in {"9800", "3"} |-> IF s = "9800" THEN 980000 ELSE 300]

\* A conversion returns Ok(n) or Raise(exception).
Ok(n) == [val |-> n]

\* float(x) -> cents, or the exception float() raises.
float(v) ==
    CASE Is(v, "float") -> Ok(v.float)
      [] Is(v, "int")   -> Ok(v.int * 100)
      [] Is(v, "bool")  -> Ok(IF v.bool THEN 100 ELSE 0)
      [] Is(v, "str")   -> IF v.str \in DOMAIN NumericLiteral
                           THEN Ok(NumericLiteral[v.str]) ELSE Raise("ValueError")
      [] OTHER          -> Raise("TypeError")

\* int(x): truncation toward zero of a float, base-10 parse of a string
\* (a string with a fractional part or no digits is a ValueError).
int(v) ==
    CASE Is(v, "int")   -> Ok(v.int)
      [] Is(v, "float") -> Ok(IF v.float >= 0 THEN v.float \div 100
                              ELSE -((-v.float) \div 100))
      [] Is(v, "bool")  -> Ok(IF v.bool THEN 1 ELSE 0)
      [] Is(v, "str")   -> IF v.str \in DOMAIN NumericLiteral
                              /\ NumericLiteral[v.str] % 100 = 0
                           THEN Ok(NumericLiteral[v.str] \div 100)
                           ELSE Raise("ValueError")
      [] OTHER          -> Raise("TypeError")

\* bool(x): truthiness; never raises.
bool(v) ==
    CASE Is(v, "bool")  -> v.bool
      [] Is(v, "int")   -> v.int # 0
      [] Is(v, "float") -> v.float # 0
      [] Is(v, "str")   -> v.str # ""
      [] OTHER          -> FALSE

\* str.lower() on the strings the inputs use.
lower(s) ==
    CASE s = "IR"   -> "ir"
      [] s = "Pk"   -> "pk"
      [] s = "WIRE" -> "wire"
      [] s = "None" -> "none"
      [] OTHER      -> s

\* str(x).lower() as extract_features applies it to country and type.
str_lower(v) ==
    CASE Is(v, "str")  -> lower(v.str)
      [] Is(v, "none") -> lower("None")
      [] Is(v, "bool") -> IF v.bool THEN "true" ELSE "false"
      [] OTHER         -> "<number>"

-----------------------------------------------------------------------------
(* Constants of ml_model.py *)

SANCTIONED_COUNTRIES == {"ir", "kp", "ru", "sy", "sd", "by", "cu", "mm"}

HIGH_RISK_COUNTRIES ==
    {"ir", "kp", "ru", "sy", "sd", "pk", "af", "by", "cu", "mm", "iq", "ly", "ye", "so"}

\* USD 10,000 and USD 9,500, in cents.
REPORTING_THRESHOLD == 1000000

STRUCTURING_LIMIT == 950000

-----------------------------------------------------------------------------
(* Feature extraction *)

\* The nine conversions of extract_features, in source order; the first
\* one that raises aborts the call.
RawFeatures(data) ==
    [amount       |-> float(DictGet(data, "amount", PyInt(0))),
     country      |-> str_lower(DictGet(data, "country", PyStr(""))),
     tx_type      |-> str_lower(DictGet(data, "type", PyStr(""))),
     hour         |-> int(DictGet(data, "hour", PyInt(12))),
     tx_count     |-> int(DictGet(data, "tx_count_30d", PyInt(0))),
     account_age  |-> int(DictGet(data, "account_age_months", PyInt(12))),
     kyc_status   |-> int(DictGet(data, "kyc_status", PyInt(1))),
     prev_flagged |-> bool(DictGet(data, "previously_flagged", PyBool(FALSE))),
     is_pep       |-> bool(DictGet(data, "is_pep", PyBool(FALSE)))]

NumericFields == <<"amount", "hour", "tx_count", "account_age", "kyc_status">>

extract_features(data) ==
    LET r == RawFeatures(data)
        failed == {i \in 1..Len(NumericFields) : IsErr(r[NumericFields[i]])}
        amount      == r.amount.val
        hour        == r.hour.val
        tx_count    == r.tx_count.val
        account_age == r.account_age.val
        kyc_status  == r.kyc_status.val
    IN  IF failed # {}
        THEN r[NumericFields[CHOOSE i \in failed : \A j \in failed : i <= j]]
        ELSE [amount           |-> amount,
              country          |-> r.country,
              tx_type          |-> r.tx_type,
              hour             |-> hour,
              tx_count         |-> tx_count,
              account_age      |-> account_age,
              kyc_status       |-> kyc_status,
              prev_flagged     |-> r.prev_flagged,
              is_pep           |-> r.is_pep,
              is_sanctioned    |-> r.country \in SANCTIONED_COUNTRIES,
              is_high_risk     |-> r.country \in HIGH_RISK_COUNTRIES,
              is_night         |-> hour < 6,
              above_threshold  |-> amount >= REPORTING_THRESHOLD,
              near_threshold   |-> STRUCTURING_LIMIT <= amount
                                   /\ amount < REPORTING_THRESHOLD,
              is_new_account   |-> account_age < 3,
              is_high_velocity |-> tx_count > 15,
              is_round_amount  |-> amount > 100000 /\ amount % 100000 = 0,
              kyc_incomplete   |-> kyc_status = 0]

-----------------------------------------------------------------------------
(* The five rule trees.  Amount literals are cents. *)

\* Mutant: tree 1 with the three amount tiers as independent tests.
tree_sanctions_amount_stacked(f) ==
    LET score == (IF f.is_sanctioned THEN 45 ELSE IF f.is_high_risk THEN 20 ELSE 0)
               + (IF f.amount > 10000000 THEN 25 ELSE 0)
               + (IF f.amount > 5000000 THEN 18 ELSE 0)
               + (IF f.amount > 1000000 THEN 10 ELSE 0)
               + (IF f.is_night THEN 15 ELSE 0)
               + (IF f.above_threshold THEN 10 ELSE 0)
    IN  Min(score, 100)

\* Tree 1: sanctions and transaction amount.
tree_sanctions_amount(f) ==
    LET score == (IF f.is_sanctioned THEN 45 ELSE IF f.is_high_risk THEN 20 ELSE 0)
               + (IF f.amount > 10000000 THEN 25
                  ELSE IF f.amount > 5000000 THEN 18
                  ELSE IF f.amount > 1000000 THEN 10 ELSE 0)
               + (IF f.is_night THEN 15 ELSE 0)
               + (IF f.above_threshold THEN 10 ELSE 0)
    IN  Min(score, 100)

\* Tree 2: account age and behavioural patterns.
tree_account_behavior(f) ==
    LET score == (IF f.is_new_account THEN 30 ELSE 0)
               + (IF f.is_high_velocity THEN 20 ELSE 0)
               + (IF f.prev_flagged THEN 30 ELSE 0)
               + (IF f.kyc_incomplete THEN 25 ELSE 0)
               + (IF f.is_pep THEN 20 ELSE 0)
               + (IF f.is_round_amount THEN 10 ELSE 0)
    IN  Min(score, 100)

\* Mutant: tree 3 without its final min(score, 100).
tree_type_country_combo_unclamped(f) ==
    (IF f.tx_type = "crypto" /\ f.is_high_risk THEN 55 ELSE 0)
    + (IF f.tx_type = "cash" /\ f.near_threshold THEN 40 ELSE 0)
    + (IF f.tx_type = "wire" /\ f.is_sanctioned THEN 50 ELSE 0)
    + (IF f.tx_type = "insurance" /\ f.amount > 10000000 THEN 25 ELSE 0)
    + (IF f.tx_type = "crypto" /\ f.is_sanctioned THEN 60 ELSE 0)
    + (IF f.is_high_risk /\ f.is_night THEN 20 ELSE 0)

\* Mutant: tree 3 with the crypto+sanctioned bonus as an alternative to the
\* crypto+high-risk bonus instead of on top of it.
tree_type_country_combo_no_stack(f) ==
    LET score == (IF f.tx_type = "crypto" /\ f.is_sanctioned THEN 60
                  ELSE IF f.tx_type = "crypto" /\ f.is_high_risk THEN 55 ELSE 0)
               + (IF f.tx_type = "cash" /\ f.near_threshold THEN 40 ELSE 0)
               + (IF f.tx_type = "wire" /\ f.is_sanctioned THEN 50 ELSE 0)
               + (IF f.tx_type = "insurance" /\ f.amount > 10000000 THEN 25 ELSE 0)
               + (IF f.is_high_risk /\ f.is_night THEN 20 ELSE 0)
    IN  Min(score, 100)

\* Tree 3: transaction type + country combination.
tree_type_country_combo(f) ==
    LET score == (IF f.tx_type = "crypto" /\ f.is_high_risk THEN 55 ELSE 0)
               + (IF f.tx_type = "cash" /\ f.near_threshold THEN 40 ELSE 0)
               + (IF f.tx_type = "wire" /\ f.is_sanctioned THEN 50 ELSE 0)
               + (IF f.tx_type = "insurance" /\ f.amount > 10000000 THEN 25 ELSE 0)
               + (IF f.tx_type = "crypto" /\ f.is_sanctioned THEN 60 ELSE 0)
               + (IF f.is_high_risk /\ f.is_night THEN 20 ELSE 0)
    IN  Min(score, 100)

\* Tree 4: KYC and transaction velocity.
tree_kyc_velocity(f) ==
    LET score == (IF f.kyc_incomplete /\ f.amount > 500000 THEN 40 ELSE 0)
               + (IF f.is_high_velocity /\ f.is_new_account THEN 40 ELSE 0)
               + (IF f.prev_flagged /\ f.amount > 1000000 THEN 35 ELSE 0)
               + (IF f.is_pep /\ f.above_threshold THEN 30 ELSE 0)
               + (IF f.near_threshold THEN 15 ELSE 0)
    IN  Min(score, 100)

\* Tree 5: count of eight risk signals * 12, +15 when four or more hold.
tree_anomaly_isolation(f) ==
    LET risk_signals == <<f.is_night, f.is_new_account, f.amount > 2500000,
                          f.is_high_risk, f.prev_flagged, f.kyc_incomplete,
                          f.is_high_velocity, f.is_pep>>
        sum == Cardinality({i \in 1..Len(risk_signals) : risk_signals[i]})
        combo_score == sum * 12 + (IF sum >= 4 THEN 15 ELSE 0)
    IN  Min(combo_score, 100)

-----------------------------------------------------------------------------
(* Ensemble *)

TreeNames == <<"Sanctions & Amount", "Account Behavior", "Type & Country Combo",
               "KYC & Velocity", "Anomaly Detection">>

\* The weights 0.25, 0.20, 0.25, 0.15, 0.15 in hundredths.
TreeWeights == <<25, 20, 25, 15, 15>>

\* Mutant: rounding an exact half up, floor(x + 0.5).
round_half_up(h) == (h + 50) \div 100

\* round(x) for x = h/100 >= 0: to the nearest integer, an exact half to the
\* even neighbour (Python 3).  On every tuple of tree scores the five trees
\* can produce, the double-precision sum of score*weight rounds the same way
\* as the exact sum h/100 (exact halves are computed exactly).
round(h) ==
    LET q == h \div 100
        r == h % 100
    IN  IF r > 50 \/ (r = 50 /\ q % 2 = 1) THEN q + 1 ELSE q

\* Mutant: the CRITICAL cutoff taken as open (> 80).
risk_level_of_open(final_score) ==
    IF final_score > 80 THEN "CRITICAL"
    ELSE IF final_score >= 60 THEN "HIGH"
    ELSE IF final_score >= 35 THEN "MEDIUM"
    ELSE "LOW"

risk_level_of(final_score) ==
    IF final_score >= 80 THEN "CRITICAL"
    ELSE IF final_score >= 60 THEN "HIGH"
    ELSE IF final_score >= 35 THEN "MEDIUM"
    ELSE "LOW"

random_forest_predict(features) ==
    LET scores == <<tree_sanctions_amount(features),
                    tree_account_behavior(features),
                    tree_type_country_combo(features),
                    tree_kyc_velocity(features),
                    tree_anomaly_isolation(features)>>
        \* weighted_score * 100
        weighted_score == scores[1] * TreeWeights[1] + scores[2] * TreeWeights[2]
                        + scores[3] * TreeWeights[3] + scores[4] * TreeWeights[4]
                        + scores[5] * TreeWeights[5]
        final_score == round(Min(weighted_score, 100 * 100))
    IN  [score      |-> final_score,
         risk_level |-> risk_level_of(final_score),
         trees      |-> [n \in {TreeNames[i] : i \in 1..5} |->
                            LET i == CHOOSE k \in 1..5 : TreeNames[k] = n
                            IN  round(scores[i] * 100)]]

-----------------------------------------------------------------------------
(* Flag detection *)

FATF_RED_FLAGS ==
    [sanctioned_country    |-> "Transaction to/from FATF sanctioned jurisdiction",
     high_risk_country     |-> "Destination is FATF high-risk jurisdiction",
     night_transaction     |-> "Transaction executed during unusual hours (00:00-05:59)",
     threshold_breach      |-> "Amount exceeds mandatory reporting threshold ($10,000)",
     structuring_suspected |-> "Amount near reporting threshold - possible structuring",
     new_account_large     |-> "Large transaction from recently opened account",
     high_velocity         |-> "Abnormally high transaction frequency in 30-day period",
     incomplete_kyc        |-> "Customer identity not fully verified (incomplete KYC)",
     repeat_offender       |-> "Customer has prior suspicious activity on record",
     crypto_highrisk       |-> "Cryptocurrency transfer to high-risk jurisdiction",
     cash_threshold        |-> "Large cash transaction near reporting threshold",
     pep_linked            |-> "Customer linked to Politically Exposed Person (PEP)",
     round_amount          |-> "Suspiciously round transaction amount",
     multiple_countries    |-> "Transactions to multiple countries in short period"]

\* A flag is kept as its code and severity.  Its description and citation
\* are fixed per code: flag_description and flag_fatf_ref give them.
Flag(code, severity) == [code |-> code, severity |-> severity]

CleanFlag == Flag("clean", "NONE")

flag_description(code) ==
    IF code = "clean" THEN "No significant FATF red flags detected"
    ELSE FATF_RED_FLAGS[code]

flag_fatf_ref(code) ==
    CASE code = "sanctioned_country"    -> "FATF Recommendation 6"
      [] code = "high_risk_country"     -> "FATF Recommendation 19"
      [] code = "night_transaction"     -> "FATF Typologies Report 2023"
      [] code = "threshold_breach"      -> "FRA Law 161/2024 Art. 14"
      [] code = "structuring_suspected" -> "FATF Recommendation 3"
      [] code = "new_account_large"     -> "FATF Recommendation 10"
      [] code = "high_velocity"         -> "FATF Typologies Report 2023"
      [] code = "incomplete_kyc"        -> "FATF Recommendation 10"
      [] code = "repeat_offender"       -> "FRA Law 161/2024 Art. 18"
      [] code = "crypto_highrisk"       -> "FATF Recommendation 15"
      [] code = "pep_linked"            -> "FATF Recommendation 12"
      [] code = "round_amount"          -> "FATF Typologies Report 2023"
      [] OTHER                          -> "N/A"

\* flags.append(x) when cond holds.
AppendIf(flags, cond, x) == IF cond THEN Append(flags, x) ELSE flags

\* Mutant: the high-risk predicate without its `and not is_sanctioned`.
FlagPredicates_no_exclusion(features) ==
    <<features.is_sanctioned,
      features.is_high_risk,
      features.is_night,
      features.above_threshold,
      features.near_threshold,
      features.is_new_account /\ features.amount > 500000,
      features.is_high_velocity,
      features.kyc_incomplete,
      features.prev_flagged,
      features.tx_type = "crypto" /\ features.is_high_risk,
      features.is_pep,
      features.is_round_amount /\ features.amount > 500000>>

\* Mutant: detect_flags without its sanctioned-country test.
FlagPredicates_no_sanctions(features) ==
    <<FALSE,
      features.is_high_risk /\ ~features.is_sanctioned,
      features.is_night,
      features.above_threshold,
      features.near_threshold,
      features.is_new_account /\ features.amount > 500000,
      features.is_high_velocity,
      features.kyc_incomplete,
      features.prev_flagged,
      features.tx_type = "crypto" /\ features.is_high_risk,
      features.is_pep,
      features.is_round_amount /\ features.amount > 500000>>

\* The twelve predicates of detect_flags, in source order.
FlagPredicates(features) ==
    <<features.is_sanctioned,
      features.is_high_risk /\ ~features.is_sanctioned,
      features.is_night,
      features.above_threshold,
      features.near_threshold,
      features.is_new_account /\ features.amount > 500000,
      features.is_high_velocity,
      features.kyc_incomplete,
      features.prev_flagged,
      features.tx_type = "crypto" /\ features.is_high_risk,
      features.is_pep,
      features.is_round_amount /\ features.amount > 500000>>

FlagCatalog ==
    <<Flag("sanctioned_country", "CRITICAL"),
      Flag("high_risk_country", "HIGH"),
      Flag("night_transaction", "MEDIUM"),
      Flag("threshold_breach", "HIGH"),
      Flag("structuring_suspected", "HIGH"),
      Flag("new_account_large", "HIGH"),
      Flag("high_velocity", "MEDIUM"),
      Flag("incomplete_kyc", "HIGH"),
      Flag("repeat_offender", "HIGH"),
      Flag("crypto_highrisk", "CRITICAL"),
      Flag("pep_linked", "HIGH"),
      Flag("round_amount", "LOW")>>

RECURSIVE AppendMatching(_, _, _)
\* The chain of `if predicate: flags.append(...)` statements from the k-th on.
AppendMatching(flags, preds, k) ==
    IF k > Len(preds) THEN flags
    ELSE AppendMatching(AppendIf(flags, preds[k], FlagCatalog[k]), preds, k + 1)

\* Mutant: the sentinel is not appended to an empty list.
detect_flags_no_sentinel(features) ==
    AppendMatching(<<>>, FlagPredicates(features), 1)

detect_flags(features) ==
    LET flags == AppendMatching(<<>>, FlagPredicates(features), 1)
    IN  IF flags = <<>> THEN <<CleanFlag>> ELSE flags

-----------------------------------------------------------------------------
(* Recommendation *)

actions ==
    [CRITICAL |->
        [action |-> "FREEZE & REPORT",
         steps  |-> <<"Immediately freeze the transaction",
                      "File STR with Egyptian Financial Intelligence Unit (EIFIU) within 24 hours",
                      "Escalate to MLRO and senior management",
                      "Apply Enhanced Due Diligence (EDD) on customer",
                      "Document all findings with audit trail",
                      "Do NOT tip off the customer (tipping-off offence under FRA 161/2024)">>,
         str_required |-> TRUE, edd_required |-> TRUE],
     HIGH |->
        [action |-> "REVIEW & ESCALATE",
         steps  |-> <<"Place transaction on hold pending review",
                      "Escalate to compliance supervisor",
                      "Apply Enhanced Due Diligence (EDD)",
                      "Consider filing STR if suspicion confirmed",
                      "Request additional documentation from customer">>,
         str_required |-> FALSE, edd_required |-> TRUE],
     MEDIUM |->
        [action |-> "ENHANCED MONITORING",
         steps  |-> <<"Allow transaction but flag for monitoring",
                      "Apply Standard Customer Due Diligence (CDD)",
                      "Request source of funds documentation",
                      "Increase monitoring frequency for this customer">>,
         str_required |-> FALSE, edd_required |-> FALSE],
     LOW |->
        [action |-> "PROCEED - STANDARD MONITORING",
         steps  |-> <<"Transaction may proceed",
                      "Apply standard CDD procedures",
                      "Continue routine monitoring">>,
         str_required |-> FALSE, edd_required |-> FALSE]]

\* Mutant: actions[risk_level], which raises KeyError on a value that is no tier.
get_recommendation_strict(risk_level, flags) ==
    IF risk_level \in DOMAIN actions THEN actions[risk_level] ELSE Raise("KeyError")

\* actions.get(risk_level, actions["LOW"]); flags is accepted and not read.
get_recommendation(risk_level, flags) ==
    IF risk_level \in DOMAIN actions THEN actions[risk_level] ELSE actions["LOW"]

-----------------------------------------------------------------------------
(* The orchestrator *)

\* f"TXN-{n}": an identifier string, kept as its format and its number.
TxnId(n) == [str |-> "TXN-%d", n |-> n]

\* random.randint(10000, 99999)
TXN_RAND_LO == 10000

TXN_RAND_HI == 99999

\* The draws of random.randint the model follows.
TxnDraws == {TXN_RAND_LO, TXN_RAND_HI}

flag_count(flags) == Cardinality({i \in 1..Len(flags) : flags[i].code # "clean"})

\* Mutant: an analysis whose score also depends on the random draw.
analyze_transaction_seeded(data, rnd) ==
    LET features == extract_features(data)
        prediction == random_forest_predict(features)
        flags == detect_flags(features)
        recommendation == get_recommendation(prediction.risk_level, flags)
    IN  IF IsErr(features) THEN features
        ELSE [transaction_id |-> DictGet(data, "transaction_id", TxnId(rnd)),
              score          |-> Min(prediction.score + (rnd % 2), 100),
              risk_level     |-> prediction.risk_level,
              tree_scores    |-> prediction.trees,
              flags          |-> flags,
              flag_count     |-> flag_count(flags),
              recommendation |-> recommendation,
              model_version  |-> "ShieldAML-RF-v1.0"]

\* analyze_transaction(data), with rnd the integer random.randint returns.
\* The timestamp (the clock's reading) is not part of the record.
analyze_transaction(data, rnd) ==
    LET features == extract_features(data)
        prediction == random_forest_predict(features)
        flags == detect_flags(features)
        recommendation == get_recommendation(prediction.risk_level, flags)
    IN  IF IsErr(features) THEN features
        ELSE [transaction_id |-> DictGet(data, "transaction_id", TxnId(rnd)),
              score          |-> prediction.score,
              risk_level     |-> prediction.risk_level,
              tree_scores    |-> prediction.trees,
              flags          |-> flags,
              flag_count     |-> flag_count(flags),
              recommendation |-> recommendation,
              model_version  |-> "ShieldAML-RF-v1.0"]

-----------------------------------------------------------------------------
(* KYC analysis.  A free-text string (name, occupation) is the sequence of  *)
(* its characters, so that str.lower() and the `in` substring test are      *)
(* computed as Python computes them.                                        *)

UpperChars == <<"A", "B", "C", "D", "E", "F", "G", "H", "I", "J", "K", "L", "M",
                "N", "O", "P", "Q", "R", "S", "T", "U", "V", "W", "X", "Y", "Z">>

LowerChars == <<"a", "b", "c", "d", "e", "f", "g", "h", "i", "j", "k", "l", "m",
                "n", "o", "p", "q", "r", "s", "t", "u", "v", "w", "x", "y", "z">>

lower_char(c) ==
    IF \E i \in 1..26 : UpperChars[i] = c
    THEN LowerChars[CHOOSE i \in 1..26 : UpperChars[i] = c]
    ELSE c

\* text.lower() on a character sequence.
lower_text(t) == [i \in 1..Len(t) |-> lower_char(t[i])]

\* Mutant: str(x) without .lower(), a case-sensitive match.
text_not_lowered(v) ==
    CASE Is(v, "str")  -> v.str
      [] Is(v, "none") -> <<"N", "o", "n", "e">>
      [] OTHER         -> <<>>

\* str(x).lower() for a free-text field: str(None) is "None".
text_lower(v) ==
    CASE Is(v, "str")  -> lower_text(v.str)
      [] Is(v, "none") -> lower_text(<<"N", "o", "n", "e">>)
      [] OTHER         -> <<>>

\* `part in text`: part occurs as a contiguous substring.
contains(text, part) ==
    \E i \in 0..(Len(text) - Len(part)) :
        \A j \in 1..Len(part) : text[i + j] = part[j]

SANCTIONS_LIST ==
    <<<<"k", "i", "m", " ", "j", "o", "n", "g">>,
      <<"p", "u", "t", "i", "n", " ", "v", "l", "a", "d", "i", "m", "i", "r">>,
      <<"k", "h", "a", "m", "e", "n", "e", "i">>,
      <<"a", "l", "-", "b", "a", "s", "h", "i", "r">>,
      <<"l", "u", "k", "a", "s", "h", "e", "n", "k", "o">>,
      <<"m", "a", "d", "u", "r", "o", " ", "n", "i", "c", "o", "l", "a", "s">>,
      <<"a", "l", "-", "a", "s", "s", "a", "d">>,
      <<"g", "a", "d", "d", "a", "f", "i">>>>

pep_keywords ==
    <<<<"m", "i", "n", "i", "s", "t", "e", "r">>,
      <<"p", "r", "e", "s", "i", "d", "e", "n", "t">>,
      <<"s", "e", "n", "a", "t", "o", "r">>,
      <<"o", "f", "f", "i", "c", "i", "a", "l">>,
      <<"p", "o", "l", "i", "t", "i", "c", "i", "a", "n">>,
      <<"a", "m", "b", "a", "s", "s", "a", "d", "o", "r">>,
      <<"g", "o", "v", "e", "r", "n", "o", "r">>,
      <<"p", "a", "r", "l", "i", "a", "m", "e", "n", "t">>,
      <<"g", "e", "n", "e", "r", "a", "l">>,
      <<"d", "i", "r", "e", "c", "t", "o", "r", " ", "g", "e", "n", "e", "r", "a", "l">>>>

\* Mutant: the transaction cutoffs (80 / 60 / 35) applied to a KYC score.
kyc_risk_level_txn_cutoffs(risk_score) ==
    IF risk_score >= 80 THEN "CRITICAL"
    ELSE IF risk_score >= 60 THEN "HIGH"
    ELSE IF risk_score >= 35 THEN "MEDIUM"
    ELSE "LOW"

kyc_risk_level(risk_score) ==
    IF risk_score >= 80 THEN "CRITICAL"
    ELSE IF risk_score >= 40 THEN "HIGH"
    ELSE IF risk_score >= 20 THEN "MEDIUM"
    ELSE "LOW"

analyze_kyc(data) ==
    LET name == text_lower(DictGet(data, "name", PyStr(<<>>)))
        nationality == str_lower(DictGet(data, "nationality", PyStr("")))
        occupation == text_lower(DictGet(data, "occupation", PyStr(<<>>)))
        is_pep == \E k \in 1..Len(pep_keywords) : contains(occupation, pep_keywords[k])
        sanctions_hit == \E k \in 1..Len(SANCTIONS_LIST) : contains(name, SANCTIONS_LIST[k])
        high_risk_nat == nationality \in {lower(c) : c \in HIGH_RISK_COUNTRIES}
        risk_score == (IF sanctions_hit THEN 90 ELSE 0)
                    + (IF is_pep THEN 40 ELSE 0)
                    + (IF high_risk_nat THEN 25 ELSE 0)
        risk_level == kyc_risk_level(risk_score)
        cdd_level == IF risk_level \in {"CRITICAL", "HIGH"} THEN "EDD" ELSE "Standard CDD"
    IN  [customer_name         |-> IF data.name = Absent THEN None ELSE data.name,
         risk_score            |-> Min(risk_score, 100),
         risk_level            |-> risk_level,
         sanctions_match       |-> sanctions_hit,
         is_pep                |-> is_pep,
         high_risk_nationality |-> high_risk_nat,
         cdd_level             |-> cdd_level,
         str_required          |-> sanctions_hit]

-----------------------------------------------------------------------------
(* Inputs of the engine *)

TxData(amount, type, country, hour, tx_count, age, kyc, prev, pep, id) ==
    [transaction_id     |-> id,
     amount             |-> amount,
     type               |-> type,
     country            |-> country,
     hour               |-> hour,
     tx_count_30d       |-> tx_count,
     account_age_months |-> age,
     kyc_status         |-> kyc,
     previously_flagged |-> prev,
     is_pep             |-> pep]

\* The scenarios of the specification, section 8.
ScenarioA ==
    TxData(PyFloat(12500000), PyStr("wire"), PyStr("ir"), PyInt(3), PyInt(8), PyInt(2),
           PyInt(0), PyBool(FALSE), PyBool(FALSE), Absent)

ScenarioB ==
    TxData(PyFloat(980000), PyStr("cash"), PyStr("eg"), PyInt(16), PyInt(7), PyInt(12),
           PyInt(1), PyBool(FALSE), PyBool(FALSE), Absent)

ScenarioC ==
    TxData(PyFloat(89000), PyStr("wire"), PyStr("uk"), PyInt(9), PyInt(2), PyInt(24),
           PyInt(1), PyBool(FALSE), PyBool(FALSE), Absent)

Scenarios == {ScenarioA, ScenarioB, ScenarioC}

\* Amounts (cents) on both sides of every cut the engine makes: 1000, 5000,
\* 9500, 10000, 25000, 50000, 100000 dollars, round and not round.
Amounts ==
    {0, 89000, 200000, 500000, 500001, 600000, 949999, 950000, 980000, 999999,
     1000000, 1000001, 1100000, 2500000, 2500001, 2600000, 5000000, 5000001,
     5100000, 10000000, 10000001, 12500000}

Types == {"wire", "cash", "crypto", "insurance", "internal"}

Countries == {"ir", "pk", "eg"}

Hours == {5, 6}

TxCounts == {15, 16}

AccountAges == {2, 3}

KycStatuses == {0, 1, 2}

\* Well-typed inputs, transaction_id not supplied.
GridData ==
    {TxData(PyFloat(a), PyStr(t), PyStr(c), PyInt(h), PyInt(n), PyInt(g), PyInt(k),
            PyBool(pf), PyBool(pep), Absent) :
        a \in Amounts, t \in Types, c \in Countries, h \in Hours, n \in TxCounts,
        g \in AccountAges, k \in KycStatuses, pf \in BOOLEAN, pep \in BOOLEAN}

\* The scenarios with the transaction_id key absent, None, and supplied.
IdData ==
    {[d EXCEPT !.transaction_id = id] :
        d \in Scenarios, id \in {Absent, None, PyStr("TXN-8821"), TxnId(TXN_RAND_LO)}}

\* Scenario C redirected to every listed country, by crypto or wire, at
\* night and by day.
CountryData ==
    {[ScenarioC EXCEPT !.country = PyStr(c), !.type = PyStr(t), !.hour = PyInt(h)] :
        c \in SANCTIONED_COUNTRIES \cup HIGH_RISK_COUNTRIES \cup {"eg", "uk"},
        t \in {"crypto", "wire"}, h \in {3, 9}}

DataKeys ==
    {"amount", "type", "country", "hour", "tx_count_30d", "account_age_months",
     "kyc_status", "previously_flagged", "is_pep"}

\* Values a caller may put under a key: missing, null, text, a numeric
\* string, a float with a fraction, a bool, upper-case codes.
OddValues ==
    {Absent, None, PyStr("abc"), PyStr("9800"), PyStr("3"), PyFloat(370),
     PyBool(TRUE), PyInt(0), PyStr("IR"), PyStr("Pk"), PyStr("WIRE")}

\* A scenario with one key missing or holding an odd value.
MalformedData ==
    {[d EXCEPT ![k] = v] : d \in Scenarios, k \in DataKeys, v \in OddValues}

Tiers == {"CRITICAL", "HIGH", "MEDIUM", "LOW"}

\* Arguments of direct get_recommendation calls; some are no tier at all.
TierArgs == Tiers \cup {"critical", "SEVERE", ""}

FlagArgs == {<<>>, <<CleanFlag>>, <<FlagCatalog[1], FlagCatalog[4]>>}

Text(s) == PyStr(s)

KycNames ==
    {Text(<<"P", "u", "t", "i", "n", " ", "V", "l", "a", "d", "i", "m", "i", "r">>),
     Text(<<"M", "r", " ", "P", "U", "T", "I", "N", " ", "V", "L", "A", "D", "I", "M", "I", "R", "O", "V", "I", "C", "H">>),
     Text(<<"V", "l", "a", "d", "i", "m", "i", "r", " ", "P", "u", "t", "i", "n">>),
     Text(<<"K", "i", "m", " ", "J", "o", "n", "g", " ", "U", "n">>),
     Text(<<"J", "o", "h", "n", " ", "S", "m", "i", "t", "h">>),
     Text(<<>>), None, Absent}

KycOccupations ==
    {Text(<<"P", "r", "i", "m", "e", " ", "M", "i", "n", "i", "s", "t", "e", "r">>),
     Text(<<"G", "e", "n", "e", "r", "a", "l", " ", "M", "a", "n", "a", "g", "e", "r">>),
     Text(<<"e", "n", "g", "i", "n", "e", "e", "r">>),
     Text(<<>>), None, Absent}

KycNationalities == {PyStr("ir"), PyStr("IR"), PyStr("pk"), PyStr("eg"), PyStr(""), None, Absent}

KycData ==
    {[name |-> n, nationality |-> nat, occupation |-> occ, country |-> c] :
        n \in KycNames, nat \in KycNationalities, occ \in KycOccupations,
        c \in {PyStr("eg"), PyStr("ir")}}

Calls ==
    {[op |-> "analyze_transaction", data |-> d] : d \in GridData \cup IdData \cup MalformedData \cup CountryData}
    \cup {[op |-> "extract_features", data |-> d] : d \in Scenarios \cup MalformedData}
    \cup {[op |-> "get_recommendation", risk_level |-> t, flags |-> fl] :
            t \in TierArgs, fl \in FlagArgs}
    \cup {[op |-> "analyze_kyc", data |-> d] : d \in KycData}

-----------------------------------------------------------------------------
(* The persistence layer (database.py).  A table is the sequence of its    *)
(* rows in rowid order.  A column holds a Python value; NULL is None.      *)

\* f"ALT-{n}" and f"STR-{year}-{n}"
AltId(n) == [str |-> "ALT-%d", n |-> n]

StrId(n) == [str |-> "STR-%Y-%d", n |-> n]

\* random.randint(100, 999), for alert ids and for report ids
ID_RAND_LO == 100

ID_RAND_HI == 999

\* The draws of random.randint the model follows.
IdDraws == {ID_RAND_LO, ID_RAND_HI}

SeedTx(id, name, amount, score, level) ==
    [id |-> PyStr(id), customer_name |-> PyStr(name), amount |-> PyFloat(amount),
     risk_score |-> score, risk_level |-> level,
     flags |-> <<[code |-> "demo_flag", severity |-> level,
                  description |-> "Demo transaction"]>>,
     recommendation |-> [action |-> "REVIEW", str_required |-> level = "CRITICAL"]]

SeedAlert(id, tx, type, name, amount, description, level) ==
    [id |-> PyStr(id), transaction_id |-> PyStr(tx), alert_type |-> type,
     customer_name |-> PyStr(name), amount |-> PyFloat(amount),
     description |-> description, risk_level |-> level, status |-> "OPEN"]

SeedStr(id, tx, name, amount, score, status) ==
    [id |-> PyStr(id), transaction_id |-> PyStr(tx), customer_name |-> PyStr(name),
     amount |-> PyFloat(amount), risk_score |-> score, flags |-> None,
     recommendation |-> None, status |-> status]

\* seed_demo_data, run by init_db on an empty database.
demo_transactions ==
    <<SeedTx("TXN-8821", "Mohammed Al-Rashid", 12500000, 89, "CRITICAL"),
      SeedTx("TXN-8819", "Sara Ahmed Corp", 840000, 72, "HIGH"),
      SeedTx("TXN-8814", "Gulf Traders LLC", 4500000, 68, "HIGH"),
      SeedTx("TXN-8810", "Nour Investment", 220000, 41, "MEDIUM"),
      SeedTx("TXN-8805", "Cairo Export Co", 89000, 12, "LOW"),
      SeedTx("TXN-8803", "Ahmed Hassan", 310000, 8, "LOW"),
      SeedTx("TXN-8799", "Al-Noor Holdings", 6700000, 81, "CRITICAL"),
      SeedTx("TXN-8795", "Phoenix Trading", 980000, 65, "HIGH")>>

demo_alerts ==
    <<SeedAlert("ALT-001", "TXN-8821", "Sanctions Match", "Mohammed Al-Rashid", 12500000,
                "Wire transfer to Iran - sanctioned country", "CRITICAL"),
      SeedAlert("ALT-002", "TXN-8795", "Structuring", "Phoenix Trading", 980000,
                "Cash deposit just below $10K reporting threshold", "HIGH"),
      SeedAlert("ALT-003", "TXN-8819", "Incomplete KYC", "Sara Ahmed Corp", 840000,
                "Customer KYC incomplete - identity unverified", "HIGH"),
      SeedAlert("ALT-004", "TXN-8799", "PEP Linked", "Al-Noor Holdings", 6700000,
                "Transaction linked to Politically Exposed Person", "CRITICAL"),
      SeedAlert("ALT-005", "TXN-8814", "High Velocity", "Gulf Traders LLC", 4500000,
                "22 transactions in 30 days - unusual velocity", "HIGH"),
      SeedAlert("ALT-006", "TXN-8810", "Enhanced Monitoring", "Nour Investment", 220000,
                "Previously flagged customer - enhanced monitoring", "MEDIUM")>>

demo_str ==
    <<SeedStr("STR-2025-041", "TXN-8821", "Mohammed Al-Rashid", 12500000, 89, "SUBMITTED"),
      SeedStr("STR-2025-040", "TXN-8795", "Phoenix Trading", 980000, 65, "DRAFT"),
      SeedStr("STR-2025-039", "TXN-8799", "Al-Noor Holdings", 6700000, 81, "SUBMITTED")>>

\* The rows of a table that do not have the given primary key.  NULL equals
\* nothing in SQL, so a NULL key conflicts with no row.
WithoutKey(table, id) ==
    SelectSeq(table, LAMBDA row : id = None \/ row.id # id)

HasKey(table, id) ==
    id # None /\ \E i \in 1..Len(table) : table[i].id = id

\* top_flag.get("code", ...).replace("_", " ").title()
alert_type_of(code) ==
    CASE code = "sanctioned_country"    -> "Sanctioned Country"
      [] code = "high_risk_country"     -> "High Risk Country"
      [] code = "night_transaction"     -> "Night Transaction"
      [] code = "threshold_breach"      -> "Threshold Breach"
      [] code = "structuring_suspected" -> "Structuring Suspected"
      [] code = "new_account_large"     -> "New Account Large"
      [] code = "high_velocity"         -> "High Velocity"
      [] code = "incomplete_kyc"        -> "Incomplete Kyc"
      [] code = "repeat_offender"       -> "Repeat Offender"
      [] code = "crypto_highrisk"       -> "Crypto Highrisk"
      [] code = "pep_linked"            -> "Pep Linked"
      [] code = "round_amount"          -> "Round Amount"
      [] code = "clean"                 -> "Clean"
      [] OTHER                          -> "Risk Detected"

\* Mutant: save_transaction writing the alert with INSERT OR REPLACE.
save_transaction_replace_alert(data, analysis, alert_rnd, txs, alts) ==
    LET tx_id == analysis.transaction_id
        row == [id             |-> tx_id,
                customer_name  |-> DictGet(data, "customer_name", PyStr("Unknown")),
                amount         |-> DictGet(data, "amount", PyInt(0)),
                risk_score     |-> analysis.score,
                risk_level     |-> analysis.risk_level,
                flags          |-> analysis.flags,
                recommendation |-> analysis.recommendation]
        \* INSERT OR REPLACE: the row with this key, if any, is deleted first
        txs1 == Append(WithoutKey(txs, tx_id), row)
        top_flag == analysis.flags[1]
        alert_id == AltId(alert_rnd)
        alert == [id             |-> alert_id,
                  transaction_id |-> tx_id,
                  alert_type     |-> alert_type_of(top_flag.code),
                  customer_name  |-> DictGet(data, "customer_name", PyStr("Unknown")),
                  amount         |-> DictGet(data, "amount", PyInt(0)),
                  description    |-> flag_description(top_flag.code),
                  risk_level     |-> analysis.risk_level,
                  status         |-> "OPEN"]
    IN  IF analysis.risk_level \in {"HIGH", "CRITICAL"}
        THEN IF HasKey(alts, alert_id)
             THEN [raised |-> "", tx_id |-> tx_id, transactions |-> txs1,
                   alerts |-> Append(WithoutKey(alts, alert_id), alert)]
             ELSE [raised |-> "", tx_id |-> tx_id,
                   transactions |-> txs1, alerts |-> Append(alts, alert)]
        ELSE [raised |-> "", tx_id |-> tx_id, transactions |-> txs1, alerts |-> alts]

\* Mutant: save_transaction opening an alert for CRITICAL results only.
save_transaction_critical_only(data, analysis, alert_rnd, txs, alts) ==
    LET tx_id == analysis.transaction_id
        row == [id             |-> tx_id,
                customer_name  |-> DictGet(data, "customer_name", PyStr("Unknown")),
                amount         |-> DictGet(data, "amount", PyInt(0)),
                risk_score     |-> analysis.score,
                risk_level     |-> analysis.risk_level,
                flags          |-> analysis.flags,
                recommendation |-> analysis.recommendation]
        \* INSERT OR REPLACE: the row with this key, if any, is deleted first
        txs1 == Append(WithoutKey(txs, tx_id), row)
        top_flag == analysis.flags[1]
        alert_id == AltId(alert_rnd)
        alert == [id             |-> alert_id,
                  transaction_id |-> tx_id,
                  alert_type     |-> alert_type_of(top_flag.code),
                  customer_name  |-> DictGet(data, "customer_name", PyStr("Unknown")),
                  amount         |-> DictGet(data, "amount", PyInt(0)),
                  description    |-> flag_description(top_flag.code),
                  risk_level     |-> analysis.risk_level,
                  status         |-> "OPEN"]
    IN  IF analysis.risk_level \in {"CRITICAL"}
        THEN IF HasKey(alts, alert_id)
             THEN [raised |-> "IntegrityError", transactions |-> txs, alerts |-> alts]
             ELSE [raised |-> "", tx_id |-> tx_id,
                   transactions |-> txs1, alerts |-> Append(alts, alert)]
        ELSE [raised |-> "", tx_id |-> tx_id, transactions |-> txs1, alerts |-> alts]

\* save_transaction(data, analysis), with alert_rnd the draw of the alert id.
\* Returns the tables after the call: committed, or unchanged together with
\* the exception when the alert INSERT hits an existing alert id (the
\* connection is dropped without commit).
save_transaction(data, analysis, alert_rnd, txs, alts) ==
    LET tx_id == analysis.transaction_id
        row == [id             |-> tx_id,
                customer_name  |-> DictGet(data, "customer_name", PyStr("Unknown")),
                amount         |-> DictGet(data, "amount", PyInt(0)),
                risk_score     |-> analysis.score,
                risk_level     |-> analysis.risk_level,
                flags          |-> analysis.flags,
                recommendation |-> analysis.recommendation]
        \* INSERT OR REPLACE: the row with this key, if any, is deleted first
        txs1 == Append(WithoutKey(txs, tx_id), row)
        top_flag == analysis.flags[1]
        alert_id == AltId(alert_rnd)
        alert == [id             |-> alert_id,
                  transaction_id |-> tx_id,
                  alert_type     |-> alert_type_of(top_flag.code),
                  customer_name  |-> DictGet(data, "customer_name", PyStr("Unknown")),
                  amount         |-> DictGet(data, "amount", PyInt(0)),
                  description    |-> flag_description(top_flag.code),
                  risk_level     |-> analysis.risk_level,
                  status         |-> "OPEN"]
    IN  IF analysis.risk_level \in {"HIGH", "CRITICAL"}
        THEN IF HasKey(alts, alert_id)
             THEN [raised |-> "IntegrityError", transactions |-> txs, alerts |-> alts]
             ELSE [raised |-> "", tx_id |-> tx_id,
                   transactions |-> txs1, alerts |-> Append(alts, alert)]
        ELSE [raised |-> "", tx_id |-> tx_id, transactions |-> txs1, alerts |-> alts]

\* get_transaction(tx_id): the row, or None.
get_transaction(tx_id, txs) ==
    IF HasKey(txs, tx_id)
    THEN txs[CHOOSE i \in 1..Len(txs) : txs[i].id = tx_id]
    ELSE None

\* create_str_report(tx_id, analysis, tx_data), with rnd the draw of the id.
create_str_report(tx_id, analysis, tx_data, rnd, reports) ==
    LET str_id == StrId(rnd)
        row == [id             |-> str_id,
                transaction_id |-> tx_id,
                customer_name  |-> tx_data.customer_name,
                amount         |-> tx_data.amount,
                risk_score     |-> analysis.score,
                flags          |-> analysis.flags,
                recommendation |-> analysis.recommendation,
                status         |-> "DRAFT"]
    IN  IF HasKey(reports, str_id)
        THEN [raised |-> "IntegrityError", str_reports |-> reports]
        ELSE [raised |-> "", str_id |-> str_id, str_reports |-> Append(reports, row)]

\* UPDATE table SET status = ... WHERE id = ?
UpdateStatus(table, id, status) ==
    [i \in 1..Len(table) |->
        IF id # None /\ table[i].id = id
        THEN [table[i] EXCEPT !.status = status]
        ELSE table[i]]

resolve_alert(alert_id, alts) == UpdateStatus(alts, alert_id, "RESOLVED")

submit_str_report(str_id, reports) == UpdateStatus(reports, str_id, "SUBMITTED")

-----------------------------------------------------------------------------
(* The HTTP routes (routes/*.py) *)

\* TransactionInput: a request body is a record of the model's fields, each a
\* value or Absent (omitted).  The declared constraints: amount, type and
\* country are required, amount > 0, 0 <= hour <= 23, tx_count_30d >= 0,
\* account_age_months >= 0, 0 <= kyc_status <= 2.
TransactionInputValid(body) ==
    /\ body.amount # Absent /\ body.amount.float > 0
    /\ body.type # Absent
    /\ body.country # Absent
    /\ body.hour = Absent \/ (body.hour.int >= 0 /\ body.hour.int <= 23)
    /\ body.tx_count_30d = Absent \/ body.tx_count_30d.int >= 0
    /\ body.account_age_months = Absent \/ body.account_age_months.int >= 0
    /\ body.kyc_status = Absent \/ (body.kyc_status.int >= 0 /\ body.kyc_status.int <= 2)

\* tx.dict(): every field of the model is a key; an omitted field holds its
\* declared default.
TransactionInputDict(body) ==
    [transaction_id     |-> DictGet(body, "transaction_id", None),
     customer_id        |-> DictGet(body, "customer_id", None),
     customer_name      |-> DictGet(body, "customer_name", PyStr("Unknown Customer")),
     amount             |-> body.amount,
     currency           |-> DictGet(body, "currency", PyStr("USD")),
     type               |-> body.type,
     country            |-> body.country,
     hour               |-> DictGet(body, "hour", PyInt(12)),
     tx_count_30d       |-> DictGet(body, "tx_count_30d", PyInt(0)),
     account_age_months |-> DictGet(body, "account_age_months", PyInt(12)),
     kyc_status         |-> DictGet(body, "kyc_status", PyInt(1)),
     previously_flagged |-> DictGet(body, "previously_flagged", PyBool(FALSE)),
     is_pep             |-> DictGet(body, "is_pep", PyBool(FALSE))]

\* POST /api/transactions/analyze
analyze(body, txn_rnd, alert_rnd, txs, alts) ==
    IF ~TransactionInputValid(body)
    THEN [status |-> 422, transactions |-> txs, alerts |-> alts]
    ELSE LET data == TransactionInputDict(body)
             analysis == analyze_transaction(data, txn_rnd)
             saved == save_transaction(data, analysis, alert_rnd, txs, alts)
         IN  IF saved.raised # ""
             THEN [status |-> 500, transactions |-> txs, alerts |-> alts]
             ELSE [status |-> 200, success |-> TRUE, transaction_id |-> saved.tx_id,
                   analysis |-> analysis,
                   transactions |-> saved.transactions, alerts |-> saved.alerts]

\* POST /api/str/generate
generate_str(transaction_id, rnd, txs, reports) ==
    LET tx == get_transaction(transaction_id, txs)
        analysis == [score |-> tx.risk_score, risk_level |-> tx.risk_level,
                     flags |-> tx.flags, recommendation |-> tx.recommendation]
        created == create_str_report(transaction_id, analysis, tx, rnd, reports)
    IN  IF tx = None
        THEN [status |-> 404, detail |-> "Transaction not found", str_reports |-> reports]
        ELSE IF created.raised # ""
        THEN [status |-> 500, str_reports |-> reports]
        ELSE [status |-> 200, success |-> TRUE, str_id |-> created.str_id,
              str_reports |-> created.str_reports]

-----------------------------------------------------------------------------
(* Requests of the service *)

ApiBody(d, id, name) ==
    [transaction_id |-> id, customer_id |-> Absent, customer_name |-> name,
     amount |-> d.amount, currency |-> Absent, type |-> d.type, country |-> d.country,
     hour |-> d.hour, tx_count_30d |-> d.tx_count_30d,
     account_age_months |-> d.account_age_months, kyc_status |-> d.kyc_status,
     previously_flagged |-> d.previously_flagged, is_pep |-> d.is_pep]

\* Scenario A for a previously flagged customer (the seeded TXN-8821).
ScenarioAFlagged == [ScenarioA EXCEPT !.previously_flagged = PyBool(TRUE)]

\* A MEDIUM result: a large night wire to a high-risk country.
ScenarioMedium ==
    TxData(PyFloat(12500000), PyStr("wire"), PyStr("pk"), PyInt(3), PyInt(8), PyInt(2),
           PyInt(1), PyBool(FALSE), PyBool(FALSE), Absent)

ApiBodies ==
    {ApiBody(d, id, Absent) : d \in {ScenarioA, ScenarioB}, id \in {Absent, PyStr("T1")}}
    \cup {ApiBody(ScenarioAFlagged, PyStr("TXN-8821"), Absent),
          ApiBody([ScenarioA EXCEPT !.amount = PyFloat(0)], Absent, Absent),
          ApiBody([ScenarioA EXCEPT !.hour = PyInt(24)], Absent, Absent),
          ApiBody([ScenarioMedium EXCEPT !.hour = Absent, !.kyc_status = Absent],
                  PyStr("T1"), PyStr("Phoenix Trading"))}

\* Ids a client asks about: seeded rows, generated rows, unknown rows.
TransactionIdArgs == {PyStr("TXN-8805"), PyStr("T1"), PyStr("nope")}

AlertIdArgs == {PyStr("ALT-001"), AltId(ID_RAND_LO), PyStr("nope")}

StrIdArgs == {PyStr("STR-2025-040"), StrId(ID_RAND_LO), PyStr("nope")}

\* The tables grow by at most this many rows over the seeded ones: a request
\* that would add one more is not followed (one that replaces a row, is
\* rejected, or fails is).
MaxNewTransactions == 1

MaxNewAlerts == 1

MaxNewReports == 1

-----------------------------------------------------------------------------
(* The engine: one call of a pure function per behaviour *)

\* ml_model.py opens no database: the tables stay empty here.
Init ==
    /\ pc = "ready"
    /\ call \in Calls
    /\ ret = None
    /\ transactions = <<>>
    /\ alerts = <<>>
    /\ str_reports = <<>>

ExtractFeatures ==
    /\ pc = "ready"
    /\ call.op = "extract_features"
    /\ ret' = extract_features(call.data)
    /\ pc' = "done"
    /\ UNCHANGED <<call, transactions, alerts, str_reports>>

AnalyzeTransaction ==
    /\ pc = "ready"
    /\ call.op = "analyze_transaction"
    /\ \E rnd \in TxnDraws : ret' = analyze_transaction(call.data, rnd)
    /\ pc' = "done"
    /\ UNCHANGED <<call, transactions, alerts, str_reports>>

GetRecommendation ==
    /\ pc = "ready"
    /\ call.op = "get_recommendation"
    /\ ret' = get_recommendation(call.risk_level, call.flags)
    /\ pc' = "done"
    /\ UNCHANGED <<call, transactions, alerts, str_reports>>

AnalyzeKyc ==
    /\ pc = "ready"
    /\ call.op = "analyze_kyc"
    /\ ret' = analyze_kyc(call.data)
    /\ pc' = "done"
    /\ UNCHANGED <<call, transactions, alerts, str_reports>>

Next ==
    \/ ExtractFeatures
    \/ AnalyzeTransaction
    \/ GetRecommendation
    \/ AnalyzeKyc

Spec == Init /\ [][Next]_vars

-----------------------------------------------------------------------------
(* The service: any sequence of requests against the seeded database *)

InitApi ==
    /\ pc = "serving"
    /\ call = None
    /\ ret = None
    /\ transactions = demo_transactions
    /\ alerts = demo_alerts
    /\ str_reports = demo_str

PostAnalyze ==
    /\ pc = "serving"
    /\ \E body \in ApiBodies, txn_rnd \in TxnDraws, alert_rnd \in IdDraws :
        \E r \in {analyze(body, txn_rnd, alert_rnd, transactions, alerts)} :
            /\ Len(r.transactions) <= Len(demo_transactions) + MaxNewTransactions
            /\ Len(r.alerts) <= Len(demo_alerts) + MaxNewAlerts
            /\ call' = [op |-> "analyze", body |-> body]
            /\ ret' = IF r.status = 200
                      THEN [status |-> 200, success |-> TRUE,
                            transaction_id |-> r.transaction_id, analysis |-> r.analysis]
                      ELSE [status |-> r.status]
            /\ transactions' = r.transactions
            /\ alerts' = r.alerts
    /\ UNCHANGED <<pc, str_reports>>

PostGenerateStr ==
    /\ pc = "serving"
    /\ \E id \in TransactionIdArgs, rnd \in IdDraws :
        \E r \in {generate_str(id, rnd, transactions, str_reports)} :
            /\ Len(r.str_reports) <= Len(demo_str) + MaxNewReports
            /\ call' = [op |-> "generate_str", transaction_id |-> id]
            /\ ret' = IF r.status = 200
                      THEN [status |-> 200, success |-> TRUE, str_id |-> r.str_id]
                      ELSE IF r.status = 404
                      THEN [status |-> 404, detail |-> r.detail]
                      ELSE [status |-> r.status]
            /\ str_reports' = r.str_reports
    /\ UNCHANGED <<pc, transactions, alerts>>

PatchResolveAlert ==
    /\ pc = "serving"
    /\ \E id \in AlertIdArgs :
        /\ call' = [op |-> "resolve", alert_id |-> id]
        /\ ret' = [status |-> 200, success |-> TRUE]
        /\ alerts' = resolve_alert(id, alerts)
    /\ UNCHANGED <<pc, transactions, str_reports>>

PatchSubmitStr ==
    /\ pc = "serving"
    /\ \E id \in StrIdArgs :
        /\ call' = [op |-> "submit", str_id |-> id]
        /\ ret' = [status |-> 200, success |-> TRUE]
        /\ str_reports' = submit_str_report(id, str_reports)
    /\ UNCHANGED <<pc, transactions, alerts>>

NextApi ==
    \/ PostAnalyze
    \/ PostGenerateStr
    \/ PatchResolveAlert
    \/ PatchSubmitStr

SpecApi == InitApi /\ [][NextApi]_vars

-----------------------------------------------------------------------------
(* Properties *)

\* A call of the engine has returned.
Returned(op) == pc = "done" /\ call.op = op

\* analyze_transaction has returned a result (not raised).
Analysed == Returned("analyze_transaction") /\ ~IsErr(ret)

HasFlag(flags, code) == \E i \in 1..Len(flags) : flags[i].code = code

\* C1: Scenario A (125000 wire to "ir" at 03:00, 8 transactions, account age
\* 2, KYC incomplete, not flagged, not PEP) is tier CRITICAL with score >= 80
\* and carries the flags sanctioned_country and threshold_breach.
C1_ScenarioA_Critical ==
    (Analysed /\ call.data = ScenarioA) =>
        /\ ret.risk_level = "CRITICAL"
        /\ ret.score >= 80
        /\ HasFlag(ret.flags, "sanctioned_country")
        /\ HasFlag(ret.flags, "threshold_breach")

\* C2: Scenario B (9800 cash to "eg" at 16:00, 7 transactions, account age
\* 12, KYC verified) has near_threshold and not above_threshold, carries the
\* flag structuring_suspected, and is tier HIGH.
C2_ScenarioB_High ==
    (Analysed /\ call.data = ScenarioB) =>
        /\ extract_features(call.data).near_threshold
        /\ ~extract_features(call.data).above_threshold
        /\ HasFlag(ret.flags, "structuring_suspected")
        /\ ret.risk_level = "HIGH"

\* C3: the tier of every result follows from its integer score by the
\* closed-below cutoffs 80 / 60 / 35, and is one of the four tiers.
C3_TierCutoffs ==
    Analysed =>
        /\ ret.risk_level \in {"LOW", "MEDIUM", "HIGH", "CRITICAL"}
        /\ (ret.score >= 80) = (ret.risk_level = "CRITICAL")
        /\ (ret.score >= 60 /\ ret.score <= 79) = (ret.risk_level = "HIGH")
        /\ (ret.score >= 35 /\ ret.score <= 59) = (ret.risk_level = "MEDIUM")
        /\ (ret.score <= 34) = (ret.risk_level = "LOW")

\* A result exactly on the CRITICAL cutoff, and one just below it.
C3_Witness ==
    /\ Analysed
    /\ ret.score = 80
    /\ ret.risk_level = "CRITICAL"

\* C4: the flag list is never empty; it is the single sentinel "clean"/NONE
\* exactly when none of the twelve predicates holds; the sentinel never
\* appears beside another flag; flag_count counts the flags other than
\* "clean".
C4_FlagsNonEmptySentinel ==
    Analysed =>
        LET preds == FlagPredicates(extract_features(call.data))
            none == \A k \in 1..Len(preds) : ~preds[k]
        IN  /\ Len(ret.flags) >= 1
            /\ Len(preds) = 12
            /\ (ret.flags = <<[code |-> "clean", severity |-> "NONE"]>>) = none
            /\ HasFlag(ret.flags, "clean") => Len(ret.flags) = 1
            /\ ret.flag_count = Cardinality({k \in 1..Len(preds) : preds[k]})
            /\ ret.flag_count = IF HasFlag(ret.flags, "clean") THEN 0 ELSE Len(ret.flags)

\* A clean result (Scenario C) with flag_count 0.
C4_Witness ==
    /\ Analysed
    /\ call.data = ScenarioC
    /\ ret.flags = <<[code |-> "clean", severity |-> "NONE"]>>
    /\ ret.flag_count = 0

\* C5: no flag list holds both sanctioned_country and high_risk_country; a
\* sanctioned country yields sanctioned_country only, and high_risk_country
\* is emitted only for a high-risk country that is not sanctioned.
C5_SanctionedHighRiskExclusive ==
    Analysed =>
        LET country == extract_features(call.data).country
        IN  /\ ~(HasFlag(ret.flags, "sanctioned_country")
                 /\ HasFlag(ret.flags, "high_risk_country"))
            /\ country \in SANCTIONED_COUNTRIES =>
                   (HasFlag(ret.flags, "sanctioned_country")
                    /\ ~HasFlag(ret.flags, "high_risk_country"))
            /\ HasFlag(ret.flags, "high_risk_country") =
                   (country \in HIGH_RISK_COUNTRIES \ SANCTIONED_COUNTRIES)

\* A country in both sets, flagged as sanctioned only.
C5_Witness ==
    /\ Analysed
    /\ extract_features(call.data).country = "ir"
    /\ "ir" \in SANCTIONED_COUNTRIES \cap HIGH_RISK_COUNTRIES
    /\ HasFlag(ret.flags, "sanctioned_country")
    /\ ~HasFlag(ret.flags, "high_risk_country")

\* C6: every tree score of the breakdown is an integer in 0..100 and so is
\* the final score.
C6_ScoresBounded ==
    Analysed =>
        /\ DOMAIN ret.tree_scores = {TreeNames[i] : i \in 1..5}
        /\ \A n \in DOMAIN ret.tree_scores : ret.tree_scores[n] \in 0..100
        /\ ret.score \in 0..100

\* Crypto to a sanctioned country at night: the raw sum of tree 3 is
\* 55 + 60 + 20 = 135 and the reported score is the clamp, 100.
C6_Witness ==
    /\ Analysed
    /\ extract_features(call.data).tx_type = "crypto"
    /\ extract_features(call.data).is_sanctioned
    /\ extract_features(call.data).is_night
    /\ ret.tree_scores["Type & Country Combo"] = 100

\* C7: get_recommendation depends on the tier alone: CRITICAL requires STR
\* and EDD, HIGH requires EDD only, MEDIUM and LOW neither; any other value
\* gets the LOW entry and nothing is raised, whatever the flags argument.
C7_RecommendationTotal ==
    Returned("get_recommendation") =>
        /\ ~IsErr(ret)
        /\ call.risk_level = "CRITICAL" => (ret.str_required /\ ret.edd_required)
        /\ call.risk_level = "HIGH" => (~ret.str_required /\ ret.edd_required)
        /\ call.risk_level \in {"MEDIUM", "LOW"} => (~ret.str_required /\ ~ret.edd_required)
        /\ call.risk_level \notin {"CRITICAL", "HIGH", "MEDIUM", "LOW"} =>
               /\ ret.action = "PROCEED - STANDARD MONITORING"
               /\ ~ret.str_required /\ ~ret.edd_required
        /\ \A c \in Calls :
               (c.op = "get_recommendation" /\ c.risk_level = call.risk_level) =>
                   ret = get_recommendation(c.risk_level, c.flags)

\* A value that is no tier, with a non-empty flags argument, gets the LOW entry.
C7_Witness ==
    /\ Returned("get_recommendation")
    /\ call.risk_level = "SEVERE"
    /\ call.flags # <<>>
    /\ ret.action = "PROCEED - STANDARD MONITORING"

\* C8: extract_features never fails: a key that is missing or holds an
\* invalid value (null, non-numeric text) is replaced by its default.
C8_ExtractTotal ==
    Returned("extract_features") => ~IsErr(ret)

\* C9: the transaction_id of an analysis is the caller's when supplied and a
\* generated non-null TXN-<5 digits> otherwise, also through POST
\* /api/transactions/analyze with transaction_id omitted; no row is stored
\* under a null id.
C9_TransactionIdNeverNull ==
    /\ (call # None /\ call.op = "analyze" /\ ret.status = 200) =>
           /\ ret.transaction_id # None
           /\ ret.analysis.transaction_id # None
           /\ call.body.transaction_id # Absent =>
                  ret.analysis.transaction_id = call.body.transaction_id
    /\ \A i \in 1..Len(transactions) : transactions[i].id # None

\* The names of KycNames that contain, lower-cased, an entry of SANCTIONS_LIST.
SanctionedNames ==
    {Text(<<"P", "u", "t", "i", "n", " ", "V", "l", "a", "d", "i", "m", "i", "r">>),
     Text(<<"M", "r", " ", "P", "U", "T", "I", "N", " ", "V", "L", "A", "D", "I", "M", "I", "R", "O", "V", "I", "C", "H">>),
     Text(<<"K", "i", "m", " ", "J", "o", "n", "g", " ", "U", "n">>)}

\* C10: str_required equals sanctions_match, and a name that contains an
\* entry of SANCTIONS_LIST gives sanctions_match, risk_score >= 90, level
\* CRITICAL and cdd_level EDD whatever the other fields are.
C10_KycSanctionsMatch ==
    Returned("analyze_kyc") =>
        /\ ret.str_required = ret.sanctions_match
        /\ ret.sanctions_match = (call.data.name \in SanctionedNames)
        /\ call.data.name \in SanctionedNames =>
               /\ ret.sanctions_match
               /\ ret.risk_score >= 90
               /\ ret.risk_level = "CRITICAL"
               /\ ret.cdd_level = "EDD"

\* An upper-case name with the entry inside it, no PEP occupation and a
\* nationality outside the high-risk set.
C10_Witness ==
    /\ Returned("analyze_kyc")
    /\ call.data.name = Text(<<"M", "r", " ", "P", "U", "T", "I", "N", " ", "V", "L", "A", "D", "I", "M", "I", "R", "O", "V", "I", "C", "H">>)
    /\ call.data.nationality = PyStr("eg")
    /\ call.data.occupation = Text(<<"e", "n", "g", "i", "n", "e", "e", "r">>)
    /\ ret.sanctions_match /\ ret.str_required
    /\ ret.risk_score = 90
    /\ ret.risk_level = "CRITICAL"

\* The unclamped KYC sum rebuilt from the three signals a result reports.
KycSum(r) ==
    (IF r.sanctions_match THEN 90 ELSE 0)
    + (IF r.is_pep THEN 40 ELSE 0)
    + (IF r.high_risk_nationality THEN 25 ELSE 0)

\* The KYC cutoffs as the specification states them.
KycTier(n) ==
    CASE n >= 80 -> "CRITICAL"
      [] n >= 40 /\ n < 80 -> "HIGH"
      [] n >= 20 /\ n < 40 -> "MEDIUM"
      [] OTHER -> "LOW"

\* C11: for every combination of the three KYC signals the reported
\* risk_score is min(100, 90*sanctions + 40*PEP + 25*nationality), the level
\* follows the cutoffs 80 / 40 / 20 on the unclamped sum and equally on the
\* clamped score, and cdd_level is EDD exactly for CRITICAL and HIGH.
C11_KycScoreAndTier ==
    Returned("analyze_kyc") =>
        /\ ret.risk_score = Min(100, KycSum(ret))
        /\ ret.risk_level = KycTier(KycSum(ret))
        /\ ret.risk_level = KycTier(ret.risk_score)
        /\ (ret.cdd_level = "EDD") = (ret.risk_level \in {"CRITICAL", "HIGH"})
        /\ ret.cdd_level \in {"EDD", "Standard CDD"}

\* A PEP occupation alone: 40 points, level HIGH, EDD.
C11_Witness ==
    /\ Returned("analyze_kyc")
    /\ ~ret.sanctions_match /\ ret.is_pep /\ ~ret.high_risk_nationality
    /\ ret.risk_score = 40
    /\ ret.risk_level = "HIGH"
    /\ ret.cdd_level = "EDD"

\* All three signals at once: the sum 155 is reported as 100.
C11_WitnessClamped ==
    /\ Returned("analyze_kyc")
    /\ ret.sanctions_match /\ ret.is_pep /\ ret.high_risk_nationality
    /\ ret.risk_score = 100
    /\ ret.risk_level = "CRITICAL"

\* C12: a result whose flag list is the single "clean" sentinel (as for
\* Scenario C) is tier LOW with the recommendation PROCEED - STANDARD
\* MONITORING; it is never MEDIUM, HIGH or CRITICAL.
C12_CleanIsLow ==
    (Analysed /\ ret.flags = <<CleanFlag>>) =>
        /\ ret.risk_level = "LOW"
        /\ ret.score <= 34
        /\ ret.recommendation.action = "PROCEED - STANDARD MONITORING"
        /\ ~ret.recommendation.str_required
        /\ ~ret.recommendation.edd_required

\* The highest-scoring clean input: a new account moving a round 2000.
\* Tree 2 gives 40 and tree 5 gives 12, the score is round(9.8) = 10.
C12_Witness ==
    /\ Analysed
    /\ ret.flags = <<CleanFlag>>
    /\ extract_features(call.data).is_new_account
    /\ extract_features(call.data).is_round_amount
    /\ ret.score = 10
    /\ ret.risk_level = "LOW"
    /\ ret.recommendation.action = "PROCEED - STANDARD MONITORING"

\* Scenario C itself: score 0, LOW, PROCEED.
C12_ScenarioC ==
    /\ Analysed
    /\ call.data = ScenarioC
    /\ ret.flags = <<CleanFlag>>
    /\ ret.score = 0
    /\ ret.risk_level = "LOW"
    /\ ret.recommendation.action = "PROCEED - STANDARD MONITORING"

\* Some alert carries the id of transaction row t.
HasAlertFor(t, alts) == \E k \in 1..Len(alts) : alts[k].transaction_id = t.id

\* The step is a POST /api/transactions/analyze request.
IsAnalyzeStep == "op" \in DOMAIN call' /\ call'.op = "analyze"

\* What one analyze request does to the alerts table.
AnalyzeAlertStep ==
    IsAnalyzeStep =>
        IF ret'.status = 200
        THEN IF ret'.analysis.risk_level \in {"HIGH", "CRITICAL"}
             THEN /\ Len(alerts') = Len(alerts) + 1
                  /\ SubSeq(alerts', 1, Len(alerts)) = alerts
                  /\ alerts'[Len(alerts')].status = "OPEN"
                  /\ alerts'[Len(alerts')].transaction_id = ret'.transaction_id
                  /\ alerts'[Len(alerts')].risk_level = ret'.analysis.risk_level
                  /\ \E i \in 1..Len(transactions') :
                         /\ transactions'[i].id = ret'.transaction_id
                         /\ transactions'[i].risk_level = ret'.analysis.risk_level
             ELSE alerts' = alerts
        ELSE alerts' = alerts /\ transactions' = transactions

Returned13 == "op" \in DOMAIN call /\ call.op = "analyze" /\ ret.status = 200

C13_WitnessCollision ==
    /\ "op" \in DOMAIN call /\ call.op = "analyze"
    /\ ret.status = 500
    /\ call.body.transaction_id = PyStr("T1")
    /\ \A i \in 1..Len(transactions) : transactions[i].id # PyStr("T1")

\* The weighted sum of a result, in hundredths, from its per-tree breakdown.
WeightedHundredths(r) ==
    r.tree_scores[TreeNames[1]] * TreeWeights[1]
    + r.tree_scores[TreeNames[2]] * TreeWeights[2]
    + r.tree_scores[TreeNames[3]] * TreeWeights[3]
    + r.tree_scores[TreeNames[4]] * TreeWeights[4]
    + r.tree_scores[TreeNames[5]] * TreeWeights[5]

\* C14 as stated: the weighted sum never has a fractional part of exactly
\* one half, so rounding half up and half to even give the same score.
C14_NoTies ==
    Analysed =>
        /\ WeightedHundredths(ret) % 100 # 50
        /\ ret.score = round_half_up(WeightedHundredths(ret))

\* C14, amended: the score is the weighted sum rounded to the nearest
\* integer with an exact half going to the even neighbour; exact halves do
\* occur, and the score differs from rounding half up exactly on a half
\* above an even integer, where it is one lower.
C14_HalfToEven ==
    Analysed =>
        LET h == WeightedHundredths(ret)
            q == h \div 100
            r == h % 100
        IN  /\ r < 50 => ret.score = q
            /\ r > 50 => ret.score = q + 1
            /\ r = 50 => (ret.score \in {q, q + 1} /\ ret.score % 2 = 0)
            /\ (ret.score # round_half_up(h)) = (r = 50 /\ q % 2 = 0)
            /\ ret.score # round_half_up(h) => ret.score = round_half_up(h) - 1

\* Cash to "ir" from a new, previously flagged PEP account with incomplete
\* KYC: trees 45 / 100 / 0 / 0 / 75, weighted 42.5, score 42 (half up: 43).
C14_Witness ==
    /\ Analysed
    /\ WeightedHundredths(ret) = 4250
    /\ ret.score = 42
    /\ round_half_up(WeightedHundredths(ret)) = 43

\* C15: crypto to a sanctioned country gets both the crypto+high-risk bonus
\* (55) and the crypto+sanctioned bonus (60) in tree 3, which is therefore
\* clamped to exactly 100; this holds for every sanctioned country, each of
\* which is also high-risk; the result carries sanctioned_country and
\* crypto_highrisk.
C15_CryptoSanctionedStacks ==
    /\ SANCTIONED_COUNTRIES \subseteq HIGH_RISK_COUNTRIES
    /\ SANCTIONED_COUNTRIES # HIGH_RISK_COUNTRIES
    /\ (Analysed /\ extract_features(call.data).tx_type = "crypto"
                 /\ extract_features(call.data).country \in SANCTIONED_COUNTRIES) =>
           /\ extract_features(call.data).is_sanctioned
           /\ extract_features(call.data).is_high_risk
           /\ ret.tree_scores["Type & Country Combo"] = 100
           /\ HasFlag(ret.flags, "sanctioned_country")
           /\ HasFlag(ret.flags, "crypto_highrisk")

\* Crypto to "kp" by day: 55 + 60 = 115 without the night bonus, reported 100.
C15_Witness ==
    /\ Analysed
    /\ call.data.type = PyStr("crypto")
    /\ call.data.country = PyStr("kp")
    /\ call.data.hour = PyInt(9)
    /\ ret.tree_scores["Type & Country Combo"] = 100
    /\ HasFlag(ret.flags, "sanctioned_country")
    /\ HasFlag(ret.flags, "crypto_highrisk")

\* The sanctioned countries to which some crypto analysis has gone.
C15_EverySanctionedCountryCalled ==
    \A c \in SANCTIONED_COUNTRIES :
        \E d \in CountryData : d.country = PyStr(c) /\ d.type = PyStr("crypto")

\* The part of an analysis that has to repeat: everything but the id.
Verdict(a) ==
    [score |-> a.score, risk_level |-> a.risk_level, tree_scores |-> a.tree_scores,
     flags |-> a.flags, recommendation |-> a.recommendation]

IsGenerateStep == "op" \in DOMAIN call' /\ call'.op = "generate_str"

\* The request added exactly one report, a DRAFT for the requested
\* transaction with the stored risk score, under the id it answers.
OneDraftAdded ==
    /\ ret'.status = 200
    /\ Len(str_reports') = Len(str_reports) + 1
    /\ SubSeq(str_reports', 1, Len(str_reports)) = str_reports
    /\ str_reports'[Len(str_reports')].status = "DRAFT"
    /\ str_reports'[Len(str_reports')].transaction_id = call'.transaction_id
    /\ str_reports'[Len(str_reports')].id = ret'.str_id
    /\ \E i \in 1..Len(transactions) :
           /\ transactions[i].id = call'.transaction_id
           /\ str_reports'[Len(str_reports')].risk_score = transactions[i].risk_score

\* The request was refused with 404 and the reports are as they were.
NotFoundUnchanged ==
    /\ ret'.status = 404
    /\ ret'.detail = "Transaction not found"
    /\ str_reports' = str_reports

\* C17: generate_str for an id that is not stored answers 404 "Transaction
\* not found" and leaves str_reports unchanged; for a stored transaction it
\* adds exactly one DRAFT report for that id with the stored risk score,
\* whatever the tier or str_required.
C17_GenerateStr ==
    [][IsGenerateStep =>
          IF \E i \in 1..Len(transactions) : transactions[i].id = call'.transaction_id
          THEN OneDraftAdded
          ELSE NotFoundUnchanged]_vars

\* What holds of generate_str: as C17, except that for a stored transaction
\* the request fails and adds nothing when the drawn report id is taken.
C17_ExceptIdCollision ==
    [][IsGenerateStep =>
          IF \E i \in 1..Len(transactions) : transactions[i].id = call'.transaction_id
          THEN \/ OneDraftAdded
               \/ /\ ret'.status = 500
                  /\ str_reports' = str_reports
                  /\ \E k \in 1..Len(str_reports), n \in IdDraws :
                         str_reports[k].id = StrId(n)
          ELSE NotFoundUnchanged]_vars

\* A report generated for the stored LOW transaction TXN-8805, whose
\* recommendation requires no STR.
C17_ReportForLow ==
    /\ "op" \in DOMAIN call /\ call.op = "generate_str"
    /\ ret.status = 200
    /\ \E k \in 1..Len(str_reports) :
           /\ str_reports[k].id = ret.str_id
           /\ str_reports[k].transaction_id = PyStr("TXN-8805")
           /\ str_reports[k].status = "DRAFT"
           /\ str_reports[k].risk_score = 12

\* A request for a stored transaction refused because the report id drawn
\* is the id of an earlier report.
C17_IdCollision ==
    /\ "op" \in DOMAIN call /\ call.op = "generate_str"
    /\ \E i \in 1..Len(transactions) : transactions[i].id = call.transaction_id
    /\ ret.status = 500

\* C18: tree 1 scores at most 45 + 25 + 15 + 10 = 95, so the weighted sum is
\* at most 98.75, below the final clamp, and the final score is at most 99;
\* a final score of 100 is not reached.
C18_FinalClampNeverReached ==
    Analysed =>
        /\ ret.tree_scores["Sanctions & Amount"] <= 95
        /\ WeightedHundredths(ret) <= 9875
        /\ WeightedHundredths(ret) < 100 * 100
        /\ ret.score <= 99
        /\ ret.score # 100

\* The maximum: every tree but the first at 100, the first at 95; 98.75
\* rounds to 99.
C18_Witness ==
    /\ Analysed
    /\ ret.tree_scores["Sanctions & Amount"] = 95
    /\ \A i \in 2..5 : ret.tree_scores[TreeNames[i]] = 100
    /\ WeightedHundredths(ret) = 9875
    /\ ret.score = 99

\* The step is a PATCH /api/alerts/{id}/resolve request.
IsResolveStep == "op" \in DOMAIN call' /\ call'.op = "resolve"

\* The step is a PATCH /api/str/{id}/submit request.
IsSubmitStep == "op" \in DOMAIN call' /\ call'.op = "submit"

\* Rows are only appended; new rows start in status first; a row in status
\* last keeps its id and stays in status last.
OneWay(old, new, first, last) ==
    /\ Len(new) >= Len(old)
    /\ \A k \in 1..Len(old) :
           /\ new[k].id = old[k].id
           /\ old[k].status = last => new[k].status = last
    /\ \A k \in (Len(old) + 1)..Len(new) : new[k].status = first

\* new is old with the status of the row whose id is given set to status,
\* nothing else touched (old itself when no row has the id).
OnlyRowChanged(old, new, id, status) ==
    /\ Len(new) = Len(old)
    /\ \A k \in 1..Len(old) :
           new[k] = IF old[k].id = id THEN [old[k] EXCEPT !.status = status] ELSE old[k]

\* C19: under any interleaving of analyze, generate_str, resolve and submit
\* requests an alert starts OPEN and once RESOLVED stays RESOLVED, a report
\* starts DRAFT and once SUBMITTED stays SUBMITTED; resolve and submit change
\* the status of the row with the given id only (none for an unknown id) and
\* leave all other rows and tables as they were.
C19_StatusOneWay ==
    [][/\ OneWay(alerts, alerts', "OPEN", "RESOLVED")
       /\ OneWay(str_reports, str_reports', "DRAFT", "SUBMITTED")
       /\ IsResolveStep =>
              /\ OnlyRowChanged(alerts, alerts', call'.alert_id, "RESOLVED")
              /\ transactions' = transactions
              /\ str_reports' = str_reports
       /\ IsSubmitStep =>
              /\ OnlyRowChanged(str_reports, str_reports', call'.str_id, "SUBMITTED")
              /\ transactions' = transactions
              /\ alerts' = alerts]_vars

\* The alert opened for T1 was resolved and T1 was analysed again: the
\* alert is still RESOLVED.
C19_Witness ==
    /\ Returned13
    /\ call.body.transaction_id = PyStr("T1")
    /\ \E k \in 1..Len(alerts) :
           /\ alerts[k].id \in {AltId(n) : n \in IdDraws}
           /\ alerts[k].transaction_id = PyStr("T1")
           /\ alerts[k].status = "RESOLVED"

\* A generated report submitted, and a resolve request for an unknown id
\* answered with the tables untouched.
C19_WitnessUnknownId ==
    /\ "op" \in DOMAIN call /\ call.op = "resolve"
    /\ call.alert_id = PyStr("nope")
    /\ \E k \in 1..Len(str_reports) :
           /\ str_reports[k].id \in {StrId(n) : n \in IdDraws}
           /\ str_reports[k].status = "SUBMITTED"

====
